---- MODULE Spec2Model ----
(***************************************************************************)
(* Session state machine of src/App.tsx: the auth reducer, the             *)
(* AuthProvider (bootstrap effect, login, logout), the localStorage        *)
(* record under the key 'auth_user', and the two route guards.             *)
(*                                                                         *)
(* Text is modelled character by character: a JavaScript string is a       *)
(* sequence of one-character strings, so that JSON.stringify and           *)
(* JSON.parse are computed, not assumed to be inverse.                     *)
(***************************************************************************)
EXTENDS Integers, Sequences, FiniteSets, TLC

VARIABLES state, store, mounted, pending, last, written, view, probe, caller

vars ==
  <<state, store, mounted, pending, last, written, view, probe, caller>>

(***************************************************************************)
(* Bounds                                                                  *)
(***************************************************************************)
\* the largest number of login() calls suspended at the await at one time
MaxPending == 2

(***************************************************************************)
(* JavaScript values                                                       *)
(***************************************************************************)
DQ == "\""
BS == "\\"
NL == "\n"

Null == [t |-> "null"]
Undefined == [t |-> "undefined"]
Bool(b) == [t |-> "bool", b |-> b]
Num(d) == [t |-> "num", d |-> d]
Str(s) == [t |-> "str", s |-> s]
Obj(k, v) == [t |-> "obj", k |-> k, v |-> v]

Digits == {"0", "1", "2", "3", "4", "5", "6", "7", "8", "9"}

\* ToBoolean, as applied by `if (savedUser)` and `if (!context)`
Truthy(v) ==
  CASE v.t = "null" -> FALSE
    [] v.t = "undefined" -> FALSE
    [] v.t = "bool" -> v.b
    [] v.t = "num" -> \E i \in 1..Len(v.d) : v.d[i] # "0"
    [] v.t = "str" -> Len(v.s) > 0
    [] OTHER -> TRUE

\* property read o[key] of an object value; Null stands for undefined
Get(o, key) ==
  IF o.t = "obj" /\ \E i \in 1..Len(o.k) : o.k[i] = key
  THEN o.v[CHOOSE i \in 1..Len(o.k) : o.k[i] = key]
  ELSE Null

\* property write o[key] = val: a key already present keeps its position
Put(o, key, val) ==
  IF \E i \in 1..Len(o.k) : o.k[i] = key
  THEN Obj(o.k, [i \in 1..Len(o.k) |-> IF o.k[i] = key THEN val ELSE o.v[i]])
  ELSE Obj(Append(o.k, key), Append(o.v, val))

(***************************************************************************)
(* JSON.stringify and JSON.parse on the values above                       *)
(***************************************************************************)
\* dropping the filler "" from a sequence of characters
Squeeze(cs) == SelectSeq(cs, LAMBDA c : c # "")

\* the body of a JSON string literal: the quote, the backslash and the
\* newline are escaped, every other character stands for itself
QuoteChars(s) ==
  Squeeze([k \in 1..(2 * Len(s)) |->
             LET c == s[(k + 1) \div 2] IN
             IF k % 2 = 1
             THEN (IF c \in {DQ, BS, NL} THEN BS ELSE "")
             ELSE (IF c = NL THEN "n" ELSE c)])

QuoteNoEscape(s) == <<DQ>> \o s \o <<DQ>>

Quote(s) == <<DQ>> \o QuoteChars(s) \o <<DQ>>

RECURSIVE JSONStringify(_)
RECURSIVE StringifyMembers(_, _, _)
StringifyMembers(k, v, i) ==
  IF i > Len(k) THEN << >>
  ELSE (IF i > 1 THEN <<",">> ELSE << >>)
       \o Quote(k[i]) \o <<":">> \o JSONStringify(v[i])
       \o StringifyMembers(k, v, i + 1)

JSONStringify(x) ==
  CASE x.t = "null" -> <<"n", "u", "l", "l">>
    [] x.t = "bool" -> IF x.b THEN <<"t", "r", "u", "e">>
                       ELSE <<"f", "a", "l", "s", "e">>
    [] x.t = "num" -> x.d
    [] x.t = "str" -> Quote(x.s)
    [] OTHER -> <<"{">> \o StringifyMembers(x.k, x.v, 1) \o <<"}">>

\* a parse step's result: ok = FALSE is a thrown SyntaxError
Threw == [ok |-> FALSE, val |-> Null, next |-> 0]
Parsed(v, n) == [ok |-> TRUE, val |-> v, next |-> n]

RECURSIVE SkipWs(_, _)
SkipWs(txt, i) ==
  IF i <= Len(txt) /\ txt[i] = " " THEN SkipWs(txt, i + 1) ELSE i

HasAt(txt, i, lit) ==
  /\ i + Len(lit) - 1 <= Len(txt)
  /\ \A j \in 1..Len(lit) : txt[i + j - 1] = lit[j]

RECURSIVE ParseDigits(_, _, _)
ParseDigits(txt, i, acc) ==
  IF i <= Len(txt) /\ txt[i] \in Digits
  THEN ParseDigits(txt, i + 1, Append(acc, txt[i]))
  ELSE Parsed(Num(acc), i)

\* the number of backslashes that immediately precede position j, counted
\* no further back than position lo
BsRun(txt, lo, j) ==
  Cardinality({k \in 1..(j - lo) : \A m \in 1..k : txt[j - m] = BS})

\* position j of a string literal that starts at lo follows an escaping
\* backslash
Escaped(txt, lo, j) == BsRun(txt, lo, j) % 2 = 1

\* i is the position after the opening quote
ParseStringBody(txt, i, acc) ==
  LET ends == {j \in i..Len(txt) : txt[j] = DQ /\ ~Escaped(txt, i, j)} IN
  IF ends = {} THEN Threw
  ELSE LET j == CHOOSE e \in ends : \A f \in ends : e <= f
           lead(p) == txt[p] = BS /\ ~Escaped(txt, i, p)
           bad(p) == IF lead(p) THEN txt[p + 1] \notin {DQ, BS, "/", "n"}
                     ELSE ~Escaped(txt, i, p) /\ txt[p] = NL
           dec(p) == IF lead(p) THEN ""
                     ELSE IF Escaped(txt, i, p) /\ txt[p] = "n" THEN NL
                     ELSE txt[p]
       IN IF \E p \in i..(j - 1) : bad(p) THEN Threw
          ELSE Parsed(Str(acc \o Squeeze([k \in 1..(j - i) |-> dec(i + k - 1)])),
                      j + 1)

RECURSIVE ParseValue(_, _)
RECURSIVE ParseMembers(_, _, _)
\* i is the position where a member's key is expected
ParseMembers(txt, i0, acc) ==
  LET i == SkipWs(txt, i0) IN
  IF i > Len(txt) \/ txt[i] # DQ THEN Threw
  ELSE LET key == ParseStringBody(txt, i + 1, << >>) IN
       IF ~key.ok THEN Threw
       ELSE LET c == SkipWs(txt, key.next) IN
            IF c > Len(txt) \/ txt[c] # ":" THEN Threw
            ELSE LET val == ParseValue(txt, c + 1) IN
                 IF ~val.ok THEN Threw
                 ELSE LET e == SkipWs(txt, val.next)
                          obj == Put(acc, key.val.s, val.val)
                      IN IF e > Len(txt) THEN Threw
                         ELSE IF txt[e] = "}" THEN Parsed(obj, e + 1)
                         ELSE IF txt[e] = "," THEN ParseMembers(txt, e + 1, obj)
                         ELSE Threw

ParseValue(txt, i0) ==
  LET i == SkipWs(txt, i0) IN
  IF i > Len(txt) THEN Threw
  ELSE IF HasAt(txt, i, <<"n", "u", "l", "l">>) THEN Parsed(Null, i + 4)
  ELSE IF HasAt(txt, i, <<"t", "r", "u", "e">>) THEN Parsed(Bool(TRUE), i + 4)
  ELSE IF HasAt(txt, i, <<"f", "a", "l", "s", "e">>) THEN Parsed(Bool(FALSE), i + 5)
  ELSE IF txt[i] \in Digits THEN ParseDigits(txt, i, << >>)
  ELSE IF txt[i] = DQ THEN ParseStringBody(txt, i + 1, << >>)
  ELSE IF txt[i] = "{"
       THEN LET j == SkipWs(txt, i + 1) IN
            IF j <= Len(txt) /\ txt[j] = "}" THEN Parsed(Obj(<< >>, << >>), j + 1)
            ELSE ParseMembers(txt, i + 1, Obj(<< >>, << >>))
  ELSE Threw

\* JSON.parse(txt): the value, or a thrown SyntaxError (ok = FALSE)
JSONParse(txt) ==
  LET r == ParseValue(txt, 1) IN
  IF r.ok /\ SkipWs(txt, r.next) > Len(txt) THEN r ELSE Threw

(***************************************************************************)
(* Types of src/types.ts as used by src/App.tsx                            *)
(***************************************************************************)
K_id == <<"i", "d">>
K_email == <<"e", "m", "a", "i", "l">>
K_name == <<"n", "a", "m", "e">>
K_avatar == <<"a", "v", "a", "t", "a", "r">>

\* the template literal of the avatar URL, up to ${name}
AvatarPrefix ==
  <<"h", "t", "t", "p", "s", ":", "/", "/", "a", "p", "i", ".", "d", "i",
    "c", "e", "b", "e", "a", "r", ".", "c", "o", "m", "/", "7", ".", "x",
    "/", "a", "v", "a", "t", "a", "a", "a", "r", "s", "/", "s", "v", "g",
    "?", "s", "e", "e", "d", "=">>

\* the payload of LOGIN_FAILURE
FailureMessage ==
  <<"A", "u", "t", "h", "e", "n", "t", "i", "c", "a", "t", "i", "o", "n",
    " ", "f", "a", "i", "l", "e", "d", ".", " ", "P", "l", "e", "a", "s",
    "e", " ", "t", "r", "y", " ", "a", "g", "a", "i", "n", ".">>

\* the object literal with email and name taken from the wrong parameter
MakeUser_Swapped(id, email, name) ==
  Obj(<<K_id, K_email, K_name, K_avatar>>,
      <<Str(id), Str(name), Str(email), Str(AvatarPrefix \o name)>>)

\* the User object literal built by login()
MakeUser(id, email, name) ==
  Obj(<<K_id, K_email, K_name, K_avatar>>,
      <<Str(id), Str(email), Str(name), Str(AvatarPrefix \o name)>>)

\* a value of the User shape {id, email, name, avatar}, all strings
IsIdentity(v) ==
  /\ v.t = "obj"
  /\ \A key \in {K_id, K_email, K_name, K_avatar} : Get(v, key).t = "str"

\* the stored item is text that does not parse, or parses to a value that
\* is not a User
Corrupt(item) ==
  /\ item.t = "str"
  /\ LET p == JSONParse(item.s) IN ~p.ok \/ ~IsIdentity(p.val)

\* inputs of login(email, name) and results of Math.random().toString(36)
Emails == {<<"a", "@", "b">>, <<"q", DQ, "@", "b">>}
Names == {<<"a">>, <<DQ, BS, NL>>}
Ids == {<<"7", "x">>, << >>}

\* what localStorage may hold under 'auth_user' when the page loads:
\* nothing, the empty string, text that is not JSON, JSON that is not a
\* User, and a record written by an earlier session
StoreSeeds ==
  { Null,
    Str(<< >>),
    Str(<<"x">>),
    Str(<<"{", DQ, "i", "d", DQ>>),
    Str(<<"n", "u", "l", "l">>),
    Str(<<"7">>),
    Str(<<"{", "}">>),
    Str(JSONStringify(MakeUser(<<"7", "x">>, <<"a", "@", "b">>, <<"a">>))) }

(***************************************************************************)
(* authReducer                                                             *)
(***************************************************************************)
LOGIN_START == [type |-> "LOGIN_START"]
LOGIN_SUCCESS(user) == [type |-> "LOGIN_SUCCESS", payload |-> user]
LOGIN_FAILURE(msg) == [type |-> "LOGIN_FAILURE", payload |-> msg]
LOGOUT == [type |-> "LOGOUT"]

\* the initial state handed to useReducer
InitialState ==
  [user |-> Null, isAuthenticated |-> FALSE, isLoading |-> TRUE, error |-> Null]

\* the reducer with LOGOUT returning the initial state
authReducer_LogoutResets(s, action) ==
  CASE action.type = "LOGIN_START" ->
         [s EXCEPT !.isLoading = TRUE, !.error = Null]
    [] action.type = "LOGIN_SUCCESS" ->
         [s EXCEPT !.isLoading = FALSE, !.isAuthenticated = TRUE,
                   !.user = action.payload]
    [] action.type = "LOGIN_FAILURE" ->
         [s EXCEPT !.isLoading = FALSE, !.error = Str(action.payload)]
    [] action.type = "LOGOUT" -> InitialState
    [] OTHER -> s

\* the reducer with LOGIN_FAILURE also ending the session
authReducer_FailureLogsOut(s, action) ==
  CASE action.type = "LOGIN_START" ->
         [s EXCEPT !.isLoading = TRUE, !.error = Null]
    [] action.type = "LOGIN_SUCCESS" ->
         [s EXCEPT !.isLoading = FALSE, !.isAuthenticated = TRUE,
                   !.user = action.payload]
    [] action.type = "LOGIN_FAILURE" ->
         [s EXCEPT !.isLoading = FALSE, !.error = Str(action.payload),
                   !.isAuthenticated = FALSE, !.user = Null]
    [] action.type = "LOGOUT" ->
         [s EXCEPT !.isAuthenticated = FALSE, !.user = Null]
    [] OTHER -> s

\* the reducer with LOGOUT leaving the user in the state
authReducer_LogoutKeepsUser(s, action) ==
  CASE action.type = "LOGIN_START" ->
         [s EXCEPT !.isLoading = TRUE, !.error = Null]
    [] action.type = "LOGIN_SUCCESS" ->
         [s EXCEPT !.isLoading = FALSE, !.isAuthenticated = TRUE,
                   !.user = action.payload]
    [] action.type = "LOGIN_FAILURE" ->
         [s EXCEPT !.isLoading = FALSE, !.error = Str(action.payload)]
    [] action.type = "LOGOUT" -> [s EXCEPT !.isAuthenticated = FALSE]
    [] OTHER -> s

\* the reducer with LOGIN_START leaving the error of the last attempt
authReducer_StartKeepsError(s, action) ==
  CASE action.type = "LOGIN_START" -> [s EXCEPT !.isLoading = TRUE]
    [] action.type = "LOGIN_SUCCESS" ->
         [s EXCEPT !.isLoading = FALSE, !.isAuthenticated = TRUE,
                   !.user = action.payload]
    [] action.type = "LOGIN_FAILURE" ->
         [s EXCEPT !.isLoading = FALSE, !.error = Str(action.payload)]
    [] action.type = "LOGOUT" ->
         [s EXCEPT !.isAuthenticated = FALSE, !.user = Null]
    [] OTHER -> s

authReducer(s, action) ==
  CASE action.type = "LOGIN_START" ->
         [s EXCEPT !.isLoading = TRUE, !.error = Null]
    [] action.type = "LOGIN_SUCCESS" ->
         [s EXCEPT !.isLoading = FALSE, !.isAuthenticated = TRUE,
                   !.user = action.payload]
    [] action.type = "LOGIN_FAILURE" ->
         [s EXCEPT !.isLoading = FALSE, !.error = Str(action.payload)]
    [] action.type = "LOGOUT" ->
         [s EXCEPT !.isAuthenticated = FALSE, !.user = Null]
    [] OTHER -> s

(***************************************************************************)
(* AuthProvider: the bootstrap effect, login and logout.  Each operator    *)
(* gives the reducer state and the localStorage item after the code ran.   *)
(***************************************************************************)
Outcome(s, item) == [state |-> s, store |-> item]

\* useEffect(() => {...}, []): getItem, the truthiness test, JSON.parse
\* (evaluated before the dispatch it is an argument of), and the catch
bootstrapEffect(s, item) ==
  IF Truthy(item)
  THEN LET p == JSONParse(item.s) IN
       IF p.ok THEN Outcome(authReducer(s, LOGIN_SUCCESS(p.val)), item)
       ELSE Outcome(authReducer(s, LOGOUT), Null)
  ELSE Outcome(authReducer(s, LOGOUT), item)

\* login(), up to the await
loginBegin(s) == authReducer(s, LOGIN_START)

\* the catch block purging the stored record, as the bootstrap catch does
loginCatch_Purges(s, item) ==
  Outcome(authReducer(s, LOGIN_FAILURE(FailureMessage)), Null)

\* login(), the catch block
loginCatch(s, item) ==
  Outcome(authReducer(s, LOGIN_FAILURE(FailureMessage)), item)

\* login() dispatching LOGIN_SUCCESS without the setItem call
loginResume_NoWrite(s, item, id, email, name, stored) ==
  LET user == MakeUser(id, email, name) IN
  IF stored
  THEN Outcome(authReducer(s, LOGIN_SUCCESS(user)), item)
  ELSE loginCatch(s, item)

\* login(), after the await: setItem either stores the text or throws
\* (QuotaExceededError, storage disabled) and leaves the item as it was
loginResume(s, item, id, email, name, stored) ==
  LET user == MakeUser(id, email, name) IN
  IF stored
  THEN Outcome(authReducer(s, LOGIN_SUCCESS(user)), Str(JSONStringify(user)))
  ELSE loginCatch(s, item)

\* login() with a catch block that throws the error on
loginSettles_Rethrows(stored) == IF stored THEN "fulfilled" ELSE "rejected"

\* how the promise login() returns settles: the try block's only throw is
\* caught and the catch block completes normally, so the async function
\* returns on both paths
loginSettles(stored) == "fulfilled"

\* LoginPage.handleSubmit and RegisterPage.handleSubmit after
\* `await login(...)`: the path navigate() is called with, "" when the
\* await throws and the rest of the handler is skipped
handleSubmit(settled) == IF settled = "fulfilled" THEN "/dashboard" ELSE ""

\* logout() without the removeItem call
logout_KeepsItem(s, item) == Outcome(authReducer(s, LOGOUT), item)

logout(s, item) == Outcome(authReducer(s, LOGOUT), Null)

(***************************************************************************)
(* The context and its consumers                                           *)
(***************************************************************************)
\* the value the provider hands down: { ...state, login, logout }
ContextValue(s) == [t |-> "context", state |-> s]

\* useAuth without the check: outside a provider the caller gets the
\* context's default value
useAuth_NoCheck(context) == [threw |-> FALSE, value |-> context]

\* useAuth(), given what useContext(AuthContext) returns: the provider's
\* value inside an AuthProvider, the default undefined outside
useAuth(context) ==
  IF ~Truthy(context) THEN [threw |-> TRUE, value |-> Undefined]
  ELSE [threw |-> FALSE, value |-> context]

(***************************************************************************)
(* Route guards: what each renders for the session it reads                *)
(***************************************************************************)
\* the guard testing isAuthenticated before isLoading
ProtectedRoute_AuthFirst(s) ==
  IF s.isAuthenticated THEN "children"
  ELSE IF s.isLoading THEN "spinner" ELSE "navigate:/login"

\* the guard without the isLoading test
PublicRoute_IgnoresLoading(s) ==
  IF ~s.isAuthenticated THEN "children" ELSE "navigate:/dashboard"

ProtectedRoute(s) ==
  IF s.isLoading THEN "spinner"
  ELSE IF s.isAuthenticated THEN "children" ELSE "navigate:/login"

PublicRoute(s) ==
  IF s.isLoading THEN "nothing"
  ELSE IF ~s.isAuthenticated THEN "children" ELSE "navigate:/dashboard"

\* what the two guards, mounted inside the provider, render for state s
Render(s) ==
  LET c == useAuth(ContextValue(s)) IN
  IF c.threw THEN [protected |-> "error", public |-> "error"]
  ELSE [protected |-> ProtectedRoute(c.value.state),
        public |-> PublicRoute(c.value.state)]

\* no consumer has called useAuth() since the state last changed
NoProbe == [scope |-> "none", res |-> useAuth(Undefined)]

(***************************************************************************)
(* The state machine.                                                      *)
(*   state    the reducer state of the mounted AuthProvider                *)
(*   store    localStorage.getItem('auth_user'): Null or a string          *)
(*   mounted  the bootstrap effect has run in this page load               *)
(*   pending  the login() calls suspended at the await, oldest first       *)
(*            (equal timeouts fire in the order they were set)             *)
(*   last     history: the operation that ran last and what it saw         *)
(*   written  history: the user of the latest successful login() if no     *)
(*            logout() ran since, else Null                                *)
(*   view     what ProtectedRoute and PublicRoute render for the state     *)
(*   probe    the result of the useAuth() call a consumer made since the   *)
(*            state last changed, inside or outside the provider           *)
(*   caller   the handler that awaited the login() resolved last: how the  *)
(*            promise settled, where it navigated, and a bit that flips at *)
(*            every resolution                                             *)
(***************************************************************************)
\* a login() call: its arguments, and history: solo, no other login() was
\* suspended while it was; cut, logout() ran while it was suspended
Call(email, name, solo) ==
  [email |-> email, name |-> name, solo |-> solo, cut |-> FALSE]

NoCall == Call(<< >>, << >>, FALSE)

\* op: the operation (or, for a bare dispatch, the action's type); call:
\* the login() call it belongs to; seen: the item the bootstrap effect
\* read (for a bare dispatch, the action's payload); again: logout() ran right after logout();
\* streak: failed login() calls in a row, none overlapping another (0, 1,
\* 2 for two or more)
Last(op, call, seen, again, streak) ==
  [op |-> op, call |-> call, seen |-> seen, again |-> again, streak |-> streak]

NoCaller == [settled |-> "none", went |-> "", tick |-> FALSE]

\* the awaiting handler once login() has settled
AfterLogin(stored) ==
  LET p == loginSettles(stored) IN
  [settled |-> p, went |-> handleSubmit(p), tick |-> ~caller.tick]

\* the session is logged out: no user in the state, no record in the store
LoggedOut == ~state.isAuthenticated /\ state.user = Null /\ store = Null

Init ==
  /\ state = InitialState
  /\ store \in StoreSeeds
  /\ mounted = FALSE
  /\ pending = << >>
  /\ last = Last("init", NoCall, Null, FALSE, 0)
  /\ written = Null
  /\ view = Render(InitialState)
  /\ probe = NoProbe
  /\ caller = NoCaller

\* the effect runs once after the provider's first render
Bootstrap ==
  /\ ~mounted
  /\ LET r == bootstrapEffect(state, store) IN
     /\ state' = r.state
     /\ store' = r.store
  /\ mounted' = TRUE
  /\ last' = Last("bootstrap", NoCall, store, FALSE, 0)
  /\ UNCHANGED <<pending, written>>
  /\ view' = Render(state')
  /\ probe' = NoProbe
  /\ UNCHANGED caller

\* a consumer calls login(email, name); the call suspends at the await
LoginStart ==
  /\ mounted
  /\ Len(pending) < MaxPending
  /\ \E email \in Emails, name \in Names :
       LET c == Call(email, name, pending = << >>) IN
       /\ pending' = [i \in 1..Len(pending) |->
                        [pending[i] EXCEPT !.solo = FALSE]] \o <<c>>
       /\ last' = Last("loginStart", c, Null, FALSE, last.streak)
  /\ state' = loginBegin(state)
  /\ UNCHANGED <<store, mounted, written>>
  /\ view' = Render(state')
  /\ probe' = NoProbe
  /\ UNCHANGED caller

\* the oldest suspended login() resumes and setItem stores the record
LoginSucceed ==
  /\ pending # << >>
  /\ \E id \in Ids :
       LET c == Head(pending)
           r == loginResume(state, store, id, c.email, c.name, TRUE)
       IN /\ state' = r.state
          /\ store' = r.store
          /\ written' = MakeUser(id, c.email, c.name)
          /\ last' = Last("loginOk", c, Null, FALSE, 0)
  /\ pending' = Tail(pending)
  /\ UNCHANGED mounted
  /\ view' = Render(state')
  /\ probe' = NoProbe
  /\ caller' = AfterLogin(TRUE)

\* the oldest suspended login() resumes and setItem throws
LoginFail ==
  /\ pending # << >>
  /\ \E id \in Ids :
       LET c == Head(pending)
           r == loginResume(state, store, id, c.email, c.name, FALSE)
       IN /\ state' = r.state
          /\ store' = r.store
          /\ last' = Last("loginFail", c, Null, FALSE,
                          IF ~c.solo THEN 0
                          ELSE IF last.streak = 0 THEN 1 ELSE 2)
  /\ pending' = Tail(pending)
  /\ UNCHANGED <<mounted, written>>
  /\ view' = Render(state')
  /\ probe' = NoProbe
  /\ caller' = AfterLogin(FALSE)

\* a consumer calls logout()
Logout ==
  /\ mounted
  /\ LET r == logout(state, store) IN
     /\ state' = r.state
     /\ store' = r.store
  /\ written' = Null
  /\ last' = Last("logout", NoCall, Null, last.op = "logout", 0)
  /\ pending' = [i \in 1..Len(pending) |-> [pending[i] EXCEPT !.cut = TRUE]]
  /\ UNCHANGED mounted
  /\ view' = Render(state')
  /\ probe' = NoProbe
  /\ UNCHANGED caller

\* the page is reloaded: a new AuthProvider mounts over the same storage,
\* and the suspended calls of the old page are gone
Reload ==
  /\ mounted
  /\ state' = InitialState
  /\ mounted' = FALSE
  /\ pending' = << >>
  /\ last' = Last("init", NoCall, Null, FALSE, 0)
  /\ UNCHANGED <<store, written>>
  /\ view' = Render(state')
  /\ probe' = NoProbe
  /\ caller' = NoCaller

\* a consumer component renders and calls useAuth(), under the provider
\* or outside of it
UseAuth ==
  /\ \E scope \in {"inside", "outside"} :
       probe' = [scope |-> scope,
                 res |-> useAuth(IF scope = "inside" THEN ContextValue(state)
                                 ELSE Undefined)]
  /\ UNCHANGED <<state, store, mounted, pending, last, written, view, caller>>

Next ==
  \/ Bootstrap
  \/ LoginStart
  \/ LoginSucceed
  \/ LoginFail
  \/ Logout
  \/ Reload
  \/ UseAuth

Spec == Init /\ [][Next]_vars

\* the page loads over a store that holds nothing or a well-formed record
InitSound ==
  /\ Init
  /\ store = Null \/ (store.t = "str" /\ ~Corrupt(store))

SpecSound == InitSound /\ [][Next]_vars

\* the oldest suspended login() resumes, with either outcome of setItem
Resume ==
  /\ pending # << >>
  /\ pending' = Tail(pending)
  /\ LoginFail \/ LoginSucceed

\* the timer login() awaits always fires, so a suspended call resumes
SpecLive == Spec /\ WF_vars(Resume)

(***************************************************************************)
(* The reducer alone: every AuthState, every action of the AuthAction      *)
(* union dispatched to it.                                                 *)
(***************************************************************************)
Users == {MakeUser(id, email, name) : id \in Ids, email \in Emails, name \in Names}

AuthStates ==
  [user : Users \cup {Null}, isAuthenticated : BOOLEAN, isLoading : BOOLEAN,
   error : {Null, Str(FailureMessage)}]

AuthActions ==
  {LOGIN_START, LOGIN_FAILURE(FailureMessage), LOGOUT}
    \cup {LOGIN_SUCCESS(u) : u \in Users \cup {Null}}

InitReducer ==
  /\ state \in AuthStates
  /\ store = Null
  /\ mounted = TRUE
  /\ pending = << >>
  /\ last = Last("init", NoCall, Null, FALSE, 0)
  /\ written = Null
  /\ view = Render(state)
  /\ probe = NoProbe
  /\ caller = NoCaller

Dispatch ==
  /\ \E a \in AuthActions :
       /\ state' = authReducer(state, a)
       /\ last' = Last(a.type, NoCall,
                       IF a.type = "LOGIN_SUCCESS" THEN a.payload
                       ELSE IF a.type = "LOGIN_FAILURE" THEN Str(a.payload)
                       ELSE Null,
                       FALSE, 0)
  /\ view' = Render(state')
  /\ UNCHANGED <<store, mounted, pending, written, probe, caller>>

SpecReducer == InitReducer /\ [][Dispatch]_vars

(***************************************************************************)
(* Properties                                                              *)
(***************************************************************************)
\* C1: in every reachable state, isAuthenticated = true implies that user
\* is not null.
C1_AuthenticatedHasUser == state.isAuthenticated => state.user # Null

\* C2: once the bootstrap effect has run, isLoading is false, whatever the
\* store held.
C2_BootstrapResolvesLoading == last.op = "bootstrap" => ~state.isLoading

\* C3: after the bootstrap effect ran on a store holding text that is not
\* JSON or not a User, the session is unauthenticated with no user, the
\* store is empty and no error is set.
C3_CorruptionRecovery ==
  (last.op = "bootstrap" /\ Corrupt(last.seen)) =>
    /\ ~state.isAuthenticated
    /\ state.user = Null
    /\ store = Null
    /\ state.error = Null

\* C4: when a login(e, n) that overlapped no other login() succeeds, the
\* store holds a User record with email e and name n, and the state is
\* authenticated with that same user, not loading, and without error.
C4_LoginEstablishes ==
  (last.op = "loginOk" /\ last.call.solo) =>
    /\ store.t = "str"
    /\ JSONParse(store.s).ok
    /\ LET rec == JSONParse(store.s).val IN
       /\ IsIdentity(rec)
       /\ Get(rec, K_email) = Str(last.call.email)
       /\ Get(rec, K_name) = Str(last.call.name)
       /\ state.user = rec
    /\ state.isAuthenticated
    /\ ~state.isLoading
    /\ state.error = Null

\* a login whose name needs every escape of the string encoding succeeded
C4_Witness ==
  /\ last.op = "loginOk"
  /\ last.call.solo
  /\ last.call.name = <<DQ, BS, NL>>
  /\ state.isAuthenticated

\* C5: after a successful login, with its record still in the store, a
\* reloaded page whose bootstrap effect has run is authenticated and its
\* user equals, field by field, the user that login established.
C5_RoundTrip ==
  (last.op = "bootstrap" /\ written # Null) =>
    /\ state.isAuthenticated
    /\ \A key \in {K_id, K_email, K_name, K_avatar} :
         Get(state.user, key) = Get(written, key)
    /\ state.user = written

\* the page was reloaded after a login whose email and name need escaping
C5_Witness ==
  /\ last.op = "bootstrap"
  /\ written # Null
  /\ Get(written, K_name) = Str(<<DQ, BS, NL>>)
  /\ Get(written, K_email) = Str(<<"q", DQ, "@", "b">>)
  /\ state.user = written

\* C6: logout() is idempotent: it leaves the store empty, a logout() right
\* after a logout() changes neither the session state nor the store, and
\* neither does a logout() of a session that is already logged out.
C6_LogoutIdempotent ==
  [][last'.op = "logout" =>
       /\ store' = Null
       /\ (last.op = "logout" \/ LoggedOut) => (state' = state /\ store' = store)
    ]_vars

\* logout() ran twice in succession
C6_Witness == last.op = "logout" /\ last.again /\ LoggedOut

\* C7: a login() that fails dispatches LOGIN_FAILURE with the fixed
\* message, and neither its start nor its failure writes or clears the
\* store.
C7_FailedLoginKeepsStore ==
  [][/\ last'.op = "loginFail" =>
          (store' = store /\ state'.error = Str(FailureMessage))
     /\ last'.op = "loginStart" => store' = store
    ]_vars

\* a login failed while the store held a record, and the record is there
C7_Witness ==
  /\ last.op = "loginFail"
  /\ store # Null
  /\ state.error = Str(FailureMessage)

\* C8: for failed login() calls issued one after the other, each sets
\* error to null at its start and to a message at its end, and isLoading
\* is false once it has resolved.
C8_SequentialFailures ==
  /\ (last.op = "loginStart" /\ last.call.solo) =>
       (state.error = Null /\ state.isLoading)
  /\ (last.op = "loginFail" /\ last.call.solo) =>
       (state.error # Null /\ ~state.isLoading)

\* the second of two failed calls in a row has resolved
C8_Witness ==
  /\ last.op = "loginFail"
  /\ last.call.solo
  /\ last.streak = 2
  /\ state.error # Null

\* C9: after any failed login() the state is unauthenticated, with no
\* user, whatever it was when the attempt started.
C9_FailedLoginUnauthenticated ==
  last.op = "loginFail" => (~state.isAuthenticated /\ state.user = Null)

\* C10: isLoading is true only while the bootstrap effect has not run or a
\* login() is suspended.
C10_LoadingOnlyInFlight ==
  state.isLoading => (~mounted \/ pending # << >>)

\* C11: error becomes non-null only when a login() fails, and it is null
\* right after every login() start and right after every successful
\* login(), overlapping calls included.
C11_ErrorOnlyFromFailedLogin ==
  [][/\ (state'.error # Null /\ state'.error # state.error) =>
          last'.op = "loginFail"
     /\ last'.op \in {"loginStart", "loginOk"} => state'.error = Null
    ]_vars

\* C12: in every reachable state, isAuthenticated = false and
\* isLoading = false imply that user is null.
C12_UnauthenticatedHasNoUser ==
  (~state.isAuthenticated /\ ~state.isLoading) => state.user = Null

\* logout() ended an authenticated session that was not loading
C12_Witness ==
  /\ last.op = "logout"
  /\ ~last.again
  /\ ~state.isAuthenticated
  /\ ~state.isLoading
  /\ state.user = Null

\* C13: at most one of the bootstrap load and the login() attempts is in
\* flight: never two login() calls suspended at once, and none suspended
\* before the bootstrap effect has run.
C13_OneInFlight ==
  /\ Len(pending) <= 1
  /\ pending # << >> => mounted

\* C14: once the bootstrap effect has run, under every interleaving of
\* login() and logout() calls the store holds a record (an item the
\* bootstrap effect would read: a non-empty string) exactly when
\* isAuthenticated is true, and that record, parsed, equals user.
C14_StoreMirrorsState ==
  mounted =>
    /\ Truthy(store) <=> state.isAuthenticated
    /\ state.isAuthenticated =>
         (JSONParse(store.s).ok /\ JSONParse(store.s).val = state.user)

\* the later of two overlapping login() calls has succeeded
C14_Witness ==
  /\ last.op = "loginOk"
  /\ ~last.call.solo
  /\ state.isAuthenticated
  /\ Get(state.user, K_name) = Str(last.call.name)
  /\ JSONParse(store.s).val = state.user

\* C15: what the authenticated-only guard renders depends on isLoading and
\* isAuthenticated alone: the waiting indicator whenever isLoading is true,
\* otherwise the protected content if isAuthenticated and else the redirect
\* to /login; so the protected content is never rendered with
\* isAuthenticated = false.
C15_ProtectedGuard ==
  /\ state.isLoading => view.protected = "spinner"
  /\ (~state.isLoading /\ state.isAuthenticated) => view.protected = "children"
  /\ (~state.isLoading /\ ~state.isAuthenticated) =>
       view.protected = "navigate:/login"
  /\ view.protected = "children" => state.isAuthenticated

\* an authenticated session is loading and the guard shows the indicator
C15_Witness ==
  /\ state.isLoading
  /\ state.isAuthenticated
  /\ view.protected = "spinner"

\* C16: the anonymous-only guard renders nothing whenever isLoading is
\* true; otherwise it renders its content exactly when isAuthenticated is
\* false, and else redirects to /dashboard.
C16_PublicGuard ==
  /\ state.isLoading => view.public = "nothing"
  /\ ~state.isLoading =>
       /\ view.public = "children" <=> ~state.isAuthenticated
       /\ state.isAuthenticated => view.public = "navigate:/dashboard"

\* an unauthenticated session is loading and the guard renders nothing
C16_Witness ==
  /\ state.isLoading
  /\ ~state.isAuthenticated
  /\ mounted
  /\ view.public = "nothing"

\* C17: once the bootstrap effect has run and every started login() has
\* resolved, the session rests with isLoading = false, either authenticated
\* with a user or unauthenticated with none.
C17_Converges ==
  (mounted /\ pending = << >>) =>
    /\ ~state.isLoading
    /\ \/ state.isAuthenticated /\ state.user # Null
       \/ ~state.isAuthenticated /\ state.user = Null

\* C18: useAuth() called outside an AuthProvider throws, and called inside
\* one it returns the provider's current value and never throws.
C18_UseAuthScope ==
  /\ probe.scope = "outside" => probe.res.threw
  /\ probe.scope = "inside" =>
       (~probe.res.threw /\ probe.res.value = ContextValue(state))
  /\ view.protected # "error" /\ view.public # "error"

\* a consumer outside the provider called useAuth() and got the error
C18_Witness == probe.scope = "outside" /\ probe.res.threw

\* C19: for every state and action the reducer follows the table:
\* LOGIN_START sets isLoading and clears error, the rest unchanged;
\* LOGIN_SUCCESS sets isLoading = false, isAuthenticated = true and user to
\* the payload; LOGIN_FAILURE sets isLoading = false and error to the
\* payload, isAuthenticated and user unchanged; LOGOUT sets
\* isAuthenticated = false and user = null, isLoading and error unchanged.
C19_ReducerTable ==
  [][/\ last'.op = "LOGIN_START" =>
          state' = [state EXCEPT !.isLoading = TRUE, !.error = Null]
     /\ last'.op = "LOGIN_SUCCESS" =>
          /\ ~state'.isLoading
          /\ state'.isAuthenticated
          /\ state'.user = last'.seen
     /\ last'.op = "LOGIN_FAILURE" =>
          /\ ~state'.isLoading
          /\ state'.error = last'.seen
          /\ state'.isAuthenticated = state.isAuthenticated
          /\ state'.user = state.user
     /\ last'.op = "LOGOUT" =>
          /\ ~state'.isAuthenticated
          /\ state'.user = Null
          /\ state'.isLoading = state.isLoading
          /\ state'.error = state.error
    ]_vars

\* LOGIN_FAILURE was dispatched to an authenticated state
C19_Witness ==
  /\ last.op = "LOGIN_FAILURE"
  /\ state.isAuthenticated
  /\ state.user # Null
  /\ state.error = last.seen

\* C20: after the bootstrap effect ran on an empty or corrupt store, and
\* before any login(), the anonymous-only guard renders its content and the
\* authenticated-only guard redirects to /login.
C20_GuardsLeaveLoading ==
  (last.op = "bootstrap" /\ (last.seen = Null \/ Corrupt(last.seen))) =>
    /\ view.public = "children"
    /\ view.protected = "navigate:/login"

\* C21: logout() does not cancel a suspended login(): when a login() that
\* logout() ran during succeeds, the state is authenticated with that
\* login's user and the store holds that user's record again.
C21_LogoutDoesNotCancel ==
  (last.op = "loginOk" /\ last.call.cut) =>
    /\ state.isAuthenticated
    /\ IsIdentity(state.user)
    /\ Get(state.user, K_email) = Str(last.call.email)
    /\ Get(state.user, K_name) = Str(last.call.name)
    /\ store = Str(JSONStringify(state.user))
    /\ JSONParse(store.s).val = state.user

\* the only login() succeeded after logout() had run in its flight, and
\* nothing was issued since
C21_Witness ==
  /\ last.op = "loginOk"
  /\ last.call.cut
  /\ last.call.solo
  /\ pending = << >>
  /\ state.isAuthenticated
  /\ store # Null

\* the promise of a resolved login() is fulfilled, its caller went on to
\* /dashboard, and a failure shows only in the error field
C22_Settled ==
  /\ caller.settled # "rejected"
  /\ last.op \in {"loginOk", "loginFail"} =>
       (caller.settled = "fulfilled" /\ caller.went = "/dashboard")
  /\ last.op = "loginFail" => state.error = Str(FailureMessage)

\* C22: every login() call eventually resolves (unless the page is
\* reloaded first) and never rejects: a failure is reported through error
\* alone, and the handler awaiting login() navigates to /dashboard after a
\* failed attempt as after a successful one.
C22_LoginAlwaysResolves ==
  /\ []C22_Settled
  /\ \A b \in BOOLEAN :
       (pending # << >> /\ caller.tick = b)
         ~> (caller.tick # b \/ pending = << >>)

\* a login() failed and its caller still navigated to /dashboard
C22_Witness ==
  /\ last.op = "loginFail"
  /\ caller.settled = "fulfilled"
  /\ caller.went = "/dashboard"
  /\ state.error # Null
  /\ ~state.isAuthenticated

====
